---- MODULE Spec2Model ----
(***************************************************************************)
(* WGT shot calculator (src/main.py).                                      *)
(*                                                                         *)
(* Numbers.  Python floats are modelled as records [k, v]:                 *)
(*   k = "fin"  a finite value, v an integer in the unit of the quantity   *)
(*   k = "inf"  an infinity, v = 1 or -1 its sign                          *)
(*   k = "nan"  not-a-number, v = 0                                        *)
(* Parsed inputs are whole yards / feet / mph / degrees.  Distances that   *)
(* calculate_adjusted_shot returns are finite values in units of 10^-5     *)
(* yard (E5 == 100000): the club factors have two decimals, the feet to    *)
(* yards factor 0.33 has two, and cos/sin are tabulated to three, so every *)
(* product is an exact integer in that unit.  A percentage is the exact    *)
(* rational num/den.  Rounding error of binary floating point below 10^-5  *)
(* and the sign of a zero are not represented.                             *)
(***************************************************************************)
EXTENDS Integers, Sequences, FiniteSets, TLC

VARIABLES entry_distance, entry_elevation, entry_wind_speed, entry_wind_angle,
          club_combobox, result_label, focus, club_factors, raised, op, call

vars == <<entry_distance, entry_elevation, entry_wind_speed, entry_wind_angle,
          club_combobox, result_label, focus, club_factors, raised, op, call>>

gui_vars == <<entry_distance, entry_elevation, entry_wind_speed, entry_wind_angle,
              club_combobox, result_label, focus, club_factors, raised, op>>

\* 10^5: finite distances are counted in units of 10^-5 yard
E5 == 100 * 1000

(* ---------------------------------------------------------------------- *)
(* Float values                                                            *)
(* ---------------------------------------------------------------------- *)
Fin(n) == [k |-> "fin", v |-> n]

Inf(s) == [k |-> "inf", v |-> s]

NaN == [k |-> "nan", v |-> 0]

Sgn(n) == IF n > 0 THEN 1 ELSE IF n < 0 THEN -1 ELSE 0

Abs(n) == IF n < 0 THEN -n ELSE n

\* a + b on floats of the same unit
FAdd(a, b) ==
    IF a.k = "nan" \/ b.k = "nan" THEN NaN
    ELSE IF a.k = "inf" /\ b.k = "inf" THEN (IF a.v = b.v THEN a ELSE NaN)
    ELSE IF a.k = "inf" THEN a
    ELSE IF b.k = "inf" THEN b
    ELSE Fin(a.v + b.v)

\* a * c for a finite constant c given as the integer c * 10^digits; the
\* result of a finite a is in the unit of a divided by 10^digits
FScale(a, c) ==
    IF a.k = "nan" THEN NaN
    ELSE IF a.k = "inf" THEN (IF c = 0 THEN NaN ELSE Inf(a.v * Sgn(c)))
    ELSE Fin(a.v * c)

(* ---------------------------------------------------------------------- *)
(* Tables                                                                  *)
(* ---------------------------------------------------------------------- *)
\* elevation and wind factors in hundredths
CLUB_FACTORS ==
    [c \in {"Driver", "3-Wood", "5-Wood", "Hybrid", "3-Iron", "4-Iron", "5-Iron",
            "6-Iron", "7-Iron", "8-Iron", "9-Iron", "Pitching Wedge", "Gap Wedge",
            "Sand Wedge", "Lob Wedge"} |->
        CASE c = "Driver"         -> [elevation |-> 25, wind |-> 8]
          [] c = "3-Wood"         -> [elevation |-> 30, wind |-> 9]
          [] c = "5-Wood"         -> [elevation |-> 35, wind |-> 10]
          [] c = "Hybrid"         -> [elevation |-> 38, wind |-> 11]
          [] c = "3-Iron"         -> [elevation |-> 40, wind |-> 12]
          [] c = "4-Iron"         -> [elevation |-> 42, wind |-> 13]
          [] c = "5-Iron"         -> [elevation |-> 44, wind |-> 14]
          [] c = "6-Iron"         -> [elevation |-> 46, wind |-> 15]
          [] c = "7-Iron"         -> [elevation |-> 48, wind |-> 16]
          [] c = "8-Iron"         -> [elevation |-> 50, wind |-> 17]
          [] c = "9-Iron"         -> [elevation |-> 52, wind |-> 18]
          [] c = "Pitching Wedge" -> [elevation |-> 54, wind |-> 19]
          [] c = "Gap Wedge"      -> [elevation |-> 56, wind |-> 20]
          [] c = "Sand Wedge"     -> [elevation |-> 58, wind |-> 21]
          [] c = "Lob Wedge"      -> [elevation |-> 60, wind |-> 22]]

\* the distance table with the sign of one baseline lost
CLUB_DISTANCES_NegativeBaseline ==
    << <<"Driver", 280>>, <<"3-Wood", 240>>, <<"Hybrid", 225>>, <<"3-Iron", 228>>,
       <<"4-Iron", 212>>, <<"5-Iron", 197>>, <<"6-Iron", 181>>, <<"7-Iron", 165>>,
       <<"8-Iron", 149>>, <<"9-Iron", 133>>, <<"Pitching Wedge", 110>>,
       <<"Sand Wedge", 105>>, <<"Lob Wedge", -80>> >>

\* the dictionary literal of suggest_club_and_percentage, in insertion order
CLUB_DISTANCES ==
    << <<"Driver", 280>>, <<"3-Wood", 240>>, <<"Hybrid", 225>>, <<"3-Iron", 228>>,
       <<"4-Iron", 212>>, <<"5-Iron", 197>>, <<"6-Iron", 181>>, <<"7-Iron", 165>>,
       <<"8-Iron", 149>>, <<"9-Iron", 133>>, <<"Pitching Wedge", 110>>,
       <<"Sand Wedge", 105>>, <<"Lob Wedge", 80>> >>

\* sorted(items, key=lambda item: item[1]): stable insertion sort, ascending
RECURSIVE InsertByDistance(_, _)
InsertByDistance(item, s) ==
    IF s = <<>> THEN <<item>>
    ELSE IF item[2] < Head(s)[2] THEN <<item>> \o s
    ELSE <<Head(s)>> \o InsertByDistance(item, Tail(s))

\* the table scanned in insertion order, the sort forgotten
SortedByDistance_Unsorted(items) == items

RECURSIVE SortedByDistance(_)
SortedByDistance(items) ==
    IF items = <<>> THEN <<>>
    ELSE LET n == Len(items)
         IN  InsertByDistance(items[n], SortedByDistance(SubSeq(items, 1, n - 1)))

(* ---------------------------------------------------------------------- *)
(* suggest_club_and_percentage                                             *)
(* ---------------------------------------------------------------------- *)
\* adjusted_distance <= distance, adjusted in 10^-5 yard, distance in yards
LeqDistance(adjusted, distance) ==
    CASE adjusted.k = "nan" -> FALSE
      [] adjusted.k = "inf" -> adjusted.v < 0
      [] OTHER              -> adjusted.v <= distance * E5

\* (adjusted_distance / distance) * 100 as the rational num/den
Percentage(adjusted, distance) ==
    CASE adjusted.k = "nan" -> [k |-> "nan", num |-> 0, den |-> 1]
      [] adjusted.k = "inf" -> [k |-> "inf", num |-> adjusted.v * Sgn(distance), den |-> 1]
      [] OTHER              -> [k |-> "fin", num |-> adjusted.v, den |-> distance * (E5 \div 100)]

\* percentage > 100
Over100(p) ==
    CASE p.k = "nan" -> FALSE
      [] p.k = "inf" -> p.num > 0
      [] OTHER       -> IF p.den > 0 THEN p.num > 100 * p.den ELSE p.num < 100 * p.den

\* the scan with the lookahead taken at percentage >= 100
RECURSIVE Scan_LookaheadAt100(_, _, _)
Scan_LookaheadAt100(sorted_clubs, i, adjusted) ==
    IF i > Len(sorted_clubs)
    THEN LET last == sorted_clubs[Len(sorted_clubs)]
         IN  [club |-> last[1], percentage |-> Percentage(adjusted, last[2]),
              branch |-> "fallback"]
    ELSE LET club == sorted_clubs[i][1]
             distance == sorted_clubs[i][2]
         IN  IF LeqDistance(adjusted, distance)
             THEN LET percentage == Percentage(adjusted, distance)
                  IN  IF (Over100(percentage) \/ percentage.num = 100 * percentage.den)
                         /\ i < Len(sorted_clubs)
                      THEN [club |-> sorted_clubs[i + 1][1],
                            percentage |-> Percentage(adjusted, sorted_clubs[i + 1][2]),
                            branch |-> "lookahead"]
                      ELSE [club |-> club, percentage |-> percentage, branch |-> "first"]
             ELSE Scan_LookaheadAt100(sorted_clubs, i + 1, adjusted)

RECURSIVE Scan(_, _, _)
Scan(sorted_clubs, i, adjusted) ==
    IF i > Len(sorted_clubs)
    THEN LET last == sorted_clubs[Len(sorted_clubs)]
         IN  [club |-> last[1], percentage |-> Percentage(adjusted, last[2]),
              branch |-> "fallback"]
    ELSE LET club == sorted_clubs[i][1]
             distance == sorted_clubs[i][2]
         IN  IF LeqDistance(adjusted, distance)
             THEN LET percentage == Percentage(adjusted, distance)
                  IN  IF Over100(percentage) /\ i < Len(sorted_clubs)
                      THEN [club |-> sorted_clubs[i + 1][1],
                            percentage |-> Percentage(adjusted, sorted_clubs[i + 1][2]),
                            branch |-> "lookahead"]
                      ELSE [club |-> club, percentage |-> percentage, branch |-> "first"]
             ELSE Scan(sorted_clubs, i + 1, adjusted)

suggest_club_and_percentage(adjusted_distance) ==
    Scan(SortedByDistance(CLUB_DISTANCES), 1, adjusted_distance)

(* ---------------------------------------------------------------------- *)
(* calculate_adjusted_shot                                                 *)
(* ---------------------------------------------------------------------- *)
\* math.cos(math.radians(deg)) and math.sin(math.radians(deg)) for the sampled
\* angles: m is the value in thousandths, s the sign of the float the
\* library returns (cos(radians(90)) is 6.1e-17, not 0: m = 0, s = 1)
TrigTable ==
    [deg \in {0, 30, 60, 90, 120, 150, 180, 210, 240, 270, 300, 330, 360} |->
        CASE deg = 0   -> [cos |-> [m |-> 1000,  s |-> 1],  sin |-> [m |-> 0,     s |-> 0]]
          [] deg = 30  -> [cos |-> [m |-> 866,   s |-> 1],  sin |-> [m |-> 500,   s |-> 1]]
          [] deg = 60  -> [cos |-> [m |-> 500,   s |-> 1],  sin |-> [m |-> 866,   s |-> 1]]
          [] deg = 90  -> [cos |-> [m |-> 0,     s |-> 1],  sin |-> [m |-> 1000,  s |-> 1]]
          [] deg = 120 -> [cos |-> [m |-> -500,  s |-> -1], sin |-> [m |-> 866,   s |-> 1]]
          [] deg = 150 -> [cos |-> [m |-> -866,  s |-> -1], sin |-> [m |-> 500,   s |-> 1]]
          [] deg = 180 -> [cos |-> [m |-> -1000, s |-> -1], sin |-> [m |-> 0,     s |-> 1]]
          [] deg = 210 -> [cos |-> [m |-> -866,  s |-> -1], sin |-> [m |-> -500,  s |-> -1]]
          [] deg = 240 -> [cos |-> [m |-> -500,  s |-> -1], sin |-> [m |-> -866,  s |-> -1]]
          [] deg = 270 -> [cos |-> [m |-> 0,     s |-> -1], sin |-> [m |-> -1000, s |-> -1]]
          [] deg = 300 -> [cos |-> [m |-> 500,   s |-> 1],  sin |-> [m |-> -866,  s |-> -1]]
          [] deg = 330 -> [cos |-> [m |-> 866,   s |-> 1],  sin |-> [m |-> -500,  s |-> -1]]
          [] deg = 360 -> [cos |-> [m |-> 1000,  s |-> 1],  sin |-> [m |-> 0,     s |-> -1]]]

\* the wind component with the wind speed left out of the product
WindComponent_IgnoresSpeed(wind_speed, wind_angle_deg, fn) ==
    IF wind_speed.k = "nan" \/ wind_angle_deg.k = "nan" THEN NaN
    ELSE Fin(TrigTable[wind_angle_deg.v][fn].m)

\* the wind component with sine and cosine exchanged
WindComponent_Swapped(wind_speed, wind_angle_deg, fn) ==
    IF wind_speed.k = "nan" \/ wind_angle_deg.k = "nan" THEN NaN
    ELSE LET t == TrigTable[wind_angle_deg.v][IF fn = "cos" THEN "sin" ELSE "cos"]
         IN  IF wind_speed.k = "inf"
             THEN (IF t.s = 0 THEN NaN ELSE Inf(wind_speed.v * t.s))
             ELSE Fin(wind_speed.v * t.m)

\* wind_speed * math.cos(wind_angle_rad) (fn = "cos") or * math.sin (fn = "sin"),
\* for a wind angle that is not infinite; a finite result is in 10^-3 mph
WindComponent(wind_speed, wind_angle_deg, fn) ==
    IF wind_speed.k = "nan" \/ wind_angle_deg.k = "nan" THEN NaN
    ELSE LET t == TrigTable[wind_angle_deg.v][fn]
         IN  IF wind_speed.k = "inf"
             THEN (IF t.s = 0 THEN NaN ELSE Inf(wind_speed.v * t.s))
             ELSE Fin(wind_speed.v * t.m)

\* The outcome of a call: exc names the exception raised ("none" when the
\* call returns) and val is the returned tuple (<<>> when it raises).
Return(val) == [exc |-> "none", val |-> val]

Raise(e) == [exc |-> e, val |-> <<>>]

\* the lookup written as CLUB_FACTORS.get(club, default)
LookupFactors_Default(factors, club) ==
    IF club \in DOMAIN factors THEN Return(factors[club])
    ELSE Return([elevation |-> 40, wind |-> 12])

\* CLUB_FACTORS[club]: the entry of the club, or KeyError
LookupFactors(factors, club) ==
    IF club \in DOMAIN factors THEN Return(factors[club]) ELSE Raise("KeyError")

calculate_adjusted_shot(base_distance, elevation, wind_speed, wind_angle_deg, club, factors) ==
    LET entry == LookupFactors(factors, club)
    IN  IF entry.exc # "none" THEN Raise(entry.exc)
        ELSE LET elevation_factor == entry.val.elevation
                 wind_factor == entry.val.wind
                 \* elevation * 0.33 * elevation_factor, 10^-4 yard scaled to 10^-5
                 elevation_adjustment ==
                     FScale(FScale(FScale(elevation, 33), elevation_factor), 10)
             IN  IF wind_angle_deg.k = "inf" THEN Raise("ValueError")  \* math.cos(inf)
                 ELSE LET effective_wind_speed ==
                              WindComponent(wind_speed, wind_angle_deg, "cos")
                          wind_adjustment == FScale(effective_wind_speed, wind_factor)
                          adjusted_distance ==
                              FAdd(FAdd(FScale(base_distance, E5), elevation_adjustment),
                                   wind_adjustment)
                          lateral_wind_speed ==
                              WindComponent(wind_speed, wind_angle_deg, "sin")
                          lateral_adjustment == FScale(lateral_wind_speed, wind_factor)
                      IN  Return(<<adjusted_distance, lateral_adjustment>>)

(* ---------------------------------------------------------------------- *)
(* Text of the widgets                                                     *)
(* ---------------------------------------------------------------------- *)
\* The text of an Entry is a sequence of one-character strings.
Digits == {"0", "1", "2", "3", "4", "5", "6", "7", "8", "9"}

DigitValue(c) ==
    CASE c = "0" -> 0 [] c = "1" -> 1 [] c = "2" -> 2 [] c = "3" -> 3 [] c = "4" -> 4
      [] c = "5" -> 5 [] c = "6" -> 6 [] c = "7" -> 7 [] c = "8" -> 8 [] c = "9" -> 9

RECURSIVE DecimalValue(_)
DecimalValue(t) ==
    IF t = <<>> THEN 0
    ELSE 10 * DecimalValue(SubSeq(t, 1, Len(t) - 1)) + DigitValue(t[Len(t)])

RECURSIVE Strip(_)
Strip(t) ==
    IF t = <<>> THEN t
    ELSE IF Head(t) = " " THEN Strip(Tail(t))
    ELSE IF t[Len(t)] = " " THEN Strip(SubSeq(t, 1, Len(t) - 1))
    ELSE t

LowerChar(c) ==
    CASE c = "I" -> "i" [] c = "N" -> "n" [] c = "F" -> "f" [] c = "A" -> "a"
      [] c = "T" -> "t" [] c = "Y" -> "y" [] OTHER -> c

Lower(t) == [i \in 1..Len(t) |-> LowerChar(t[i])]

\* float(text) for texts of spaces, a sign, decimal digits and letters:
\* [sign] digits, or [sign] inf | infinity | nan in any case, surrounded by
\* optional spaces; anything else raises ValueError.  (Decimal points,
\* exponents and underscores do not occur in the texts the model enters.)
ParseFloat(text) ==
    LET t == Strip(text)
        signed == t # <<>> /\ Head(t) \in {"+", "-"}
        sign == IF signed /\ Head(t) = "-" THEN -1 ELSE 1
        body == IF signed THEN Tail(t) ELSE t
        word == Lower(body)
    IN  IF body # <<>> /\ \A i \in 1..Len(body) : body[i] \in Digits
        THEN Return(Fin(sign * DecimalValue(body)))
        ELSE IF word = <<"i", "n", "f">> \/ word = <<"i", "n", "f", "i", "n", "i", "t", "y">>
        THEN Return(Inf(sign))
        ELSE IF word = <<"n", "a", "n">> THEN Return(NaN)
        ELSE Raise("ValueError")

\* n / d rounded to the nearest integer, ties to even, for n >= 0 and d > 0.
\* (Python rounds the binary value, so a decimal tie such as 147.525 falls to
\* the side of its representation error; the texts entered below give no
\* ties.)
RoundHalfEven(n, d) ==
    LET q == n \div d
        r == n % d
    IN  IF 2 * r > d \/ (2 * r = d /\ q % 2 = 1) THEN q + 1 ELSE q

\* the pieces of a sign and a count of hundredths printed with two decimals
Decimal2(negative, centi) ==
    (IF negative THEN <<"-">> ELSE <<>>)
        \o <<ToString(centi \div 100), ".", ToString((centi % 100) \div 10),
             ToString(centi % 10)>>

\* f"{x:.2f}" for a distance x in 10^-5 yard
FormatDistance(x) ==
    CASE x.k = "nan" -> <<"nan">>
      [] x.k = "inf" -> IF x.v < 0 THEN <<"-inf">> ELSE <<"inf">>
      [] OTHER       -> Decimal2(x.v < 0, RoundHalfEven(Abs(x.v), E5 \div 100))

\* f"{percentage:.2f}" for the rational num/den
FormatPercentage(p) ==
    CASE p.k = "nan" -> <<"nan">>
      [] p.k = "inf" -> IF p.num < 0 THEN <<"-inf">> ELSE <<"inf">>
      [] OTHER       ->
           LET n == Abs(p.num)
               d == Abs(p.den)
           IN  Decimal2(Sgn(p.num) * Sgn(p.den) < 0,
                        100 * (n \div d) + RoundHalfEven(100 * (n % d), d))

InitialText == <<"Adjusted Shot Distance: ">>

InvalidText == <<"Invalid input! Please enter numeric values.">>

\* the f-string of calculate_and_display
ResultText(adjusted_distance, lateral_adjustment, suggested_club, percentage) ==
    <<"Adjusted Shot Distance: ">> \o FormatDistance(adjusted_distance) \o <<" yards\n">>
        \o <<"Lateral Adjustment: ">> \o FormatDistance(lateral_adjustment) \o <<" yards\n">>
        \o <<"Suggested Club: ", suggested_club, "\n">>
        \o <<"Percentage: ">> \o FormatPercentage(percentage) \o <<"%">>

\* The body of calculate_and_display on the texts of the four entries and the
\* combobox value: exc is the exception that escapes the handler ("none" when
\* it configures the label) and text is the text given to result_label
\* (<<>> when the label is not configured).
CalculateOutcome(distance_text, elevation_text, wind_speed_text, wind_angle_text, club, factors) ==
    LET base_distance == ParseFloat(distance_text)
        elevation == ParseFloat(elevation_text)
        wind_speed == ParseFloat(wind_speed_text)
        wind_angle == ParseFloat(wind_angle_text)
    IN  IF \/ base_distance.exc = "ValueError" \/ elevation.exc = "ValueError"
           \/ wind_speed.exc = "ValueError" \/ wind_angle.exc = "ValueError"
        THEN [exc |-> "none", text |-> InvalidText]
        ELSE LET shot == calculate_adjusted_shot(base_distance.val, elevation.val,
                                                 wind_speed.val, wind_angle.val,
                                                 club, factors)
             IN  IF shot.exc = "ValueError" THEN [exc |-> "none", text |-> InvalidText]
                 ELSE IF shot.exc # "none" THEN [exc |-> shot.exc, text |-> <<>>]
                 ELSE LET suggestion == suggest_club_and_percentage(shot.val[1])
                      IN  [exc |-> "none",
                           text |-> ResultText(shot.val[1], shot.val[2],
                                               suggestion.club, suggestion.percentage)]

(* ---------------------------------------------------------------------- *)
(* The window: widgets, handlers and user operations                       *)
(* ---------------------------------------------------------------------- *)
\* values=list(CLUB_FACTORS.keys()) of the read-only combobox
ComboboxValues == DOMAIN CLUB_FACTORS

\* Texts the user leaves in each entry.
DistanceTexts == { <<>>, <<"1", "5", "0">>, <<"n", "a", "n">> }

ElevationTexts == { <<>>, <<"-", "2", "0">> }

WindSpeedTexts == { <<"1", "o">>, <<"1", "0">>, <<"i", "n", "f">> }

WindAngleTexts == { <<>>, <<"0">>, <<"9", "0">>, <<"i", "n", "f">> }

NoCall == [fn |-> "none", args |-> <<>>, ret |-> <<>>]

\* the state when root.mainloop() starts
Init ==
    /\ entry_distance = <<>>
    /\ entry_elevation = <<>>
    /\ entry_wind_speed = <<>>
    /\ entry_wind_angle = <<>>
    /\ club_combobox = "Driver"
    /\ result_label = InitialText
    /\ focus = "none"
    /\ club_factors = CLUB_FACTORS
    /\ raised = "none"
    /\ op = "init"
    /\ call = NoCall

EditDistance ==
    \E text \in DistanceTexts :
        /\ entry_distance' = text
        /\ focus' = "entry_distance"
        /\ op' = "edit"
        /\ UNCHANGED <<entry_elevation, entry_wind_speed, entry_wind_angle, club_combobox,
                       result_label, club_factors, raised, call>>

EditElevation ==
    \E text \in ElevationTexts :
        /\ entry_elevation' = text
        /\ focus' = "entry_elevation"
        /\ op' = "edit"
        /\ UNCHANGED <<entry_distance, entry_wind_speed, entry_wind_angle, club_combobox,
                       result_label, club_factors, raised, call>>

EditWindSpeed ==
    \E text \in WindSpeedTexts :
        /\ entry_wind_speed' = text
        /\ focus' = "entry_wind_speed"
        /\ op' = "edit"
        /\ UNCHANGED <<entry_distance, entry_elevation, entry_wind_angle, club_combobox,
                       result_label, club_factors, raised, call>>

EditWindAngle ==
    \E text \in WindAngleTexts :
        /\ entry_wind_angle' = text
        /\ focus' = "entry_wind_angle"
        /\ op' = "edit"
        /\ UNCHANGED <<entry_distance, entry_elevation, entry_wind_speed, club_combobox,
                       result_label, club_factors, raised, call>>

\* the user picks an item of the drop-down list (state="readonly": the
\* text of the combobox cannot be typed)
SelectClub ==
    \E club \in ComboboxValues :
        /\ club_combobox' = club
        /\ focus' = "club_combobox"
        /\ op' = "select"
        /\ UNCHANGED <<entry_distance, entry_elevation, entry_wind_speed, entry_wind_angle,
                       result_label, club_factors, raised, call>>

\* the handler with the error branch leaving the label as it is
calculate_and_display_KeepsLabelOnError ==
    LET outcome == CalculateOutcome(entry_distance, entry_elevation, entry_wind_speed,
                                    entry_wind_angle, club_combobox, club_factors)
    IN  /\ raised' = outcome.exc
        /\ result_label' = IF outcome.exc = "none" /\ outcome.text # InvalidText
                           THEN outcome.text ELSE result_label
        /\ op' = "calculate"
        /\ UNCHANGED <<entry_distance, entry_elevation, entry_wind_speed, entry_wind_angle,
                       club_combobox, focus, club_factors, call>>

calculate_and_display ==
    LET outcome == CalculateOutcome(entry_distance, entry_elevation, entry_wind_speed,
                                    entry_wind_angle, club_combobox, club_factors)
    IN  /\ raised' = outcome.exc
        /\ result_label' = IF outcome.exc = "none" THEN outcome.text ELSE result_label
        /\ op' = "calculate"
        /\ UNCHANGED <<entry_distance, entry_elevation, entry_wind_speed, entry_wind_angle,
                       club_combobox, focus, club_factors, call>>

\* Clear emptying the combobox like the entries
clear_fields_EmptyClub ==
    /\ entry_distance' = <<>>
    /\ entry_elevation' = <<>>
    /\ entry_wind_speed' = <<>>
    /\ entry_wind_angle' = <<>>
    /\ club_combobox' = ""
    /\ result_label' = InitialText
    /\ focus' = "entry_distance"
    /\ raised' = "none"
    /\ op' = "clear"
    /\ UNCHANGED <<club_factors, call>>

\* Clear without the reset of the result label
clear_fields_KeepsLabel ==
    /\ entry_distance' = <<>>
    /\ entry_elevation' = <<>>
    /\ entry_wind_speed' = <<>>
    /\ entry_wind_angle' = <<>>
    /\ club_combobox' = "Driver"
    /\ focus' = "entry_distance"
    /\ raised' = "none"
    /\ op' = "clear"
    /\ UNCHANGED <<result_label, club_factors, call>>

clear_fields ==
    /\ entry_distance' = <<>>
    /\ entry_elevation' = <<>>
    /\ entry_wind_speed' = <<>>
    /\ entry_wind_angle' = <<>>
    /\ club_combobox' = "Driver"
    /\ result_label' = InitialText
    /\ focus' = "entry_distance"
    /\ raised' = "none"
    /\ op' = "clear"
    /\ UNCHANGED <<club_factors, call>>

Next ==
    \/ EditDistance
    \/ EditElevation
    \/ EditWindSpeed
    \/ EditWindAngle
    \/ SelectClub
    \/ calculate_and_display
    \/ clear_fields

Spec == Init /\ [][Next]_vars

(* ---------------------------------------------------------------------- *)
(* The two functions called directly                                       *)
(* ---------------------------------------------------------------------- *)
MaxAdjustedYards == 300

MaxNegativeYards == 20

\* baselines of the distance table, in yards
Baselines == {CLUB_DISTANCES[i][2] : i \in 1..Len(CLUB_DISTANCES)}

\* adjusted distances handed to suggest_club_and_percentage: every half yard
\* of the range, each baseline and its two neighbours at 10^-5 yard, and the
\* three non-finite floats
AdjustedSamples ==
    {Fin(h * (E5 \div 2)) : h \in (-2 * MaxNegativeYards)..(2 * MaxAdjustedYards)}
        \cup {Fin(b * E5 + e) : b \in Baselines, e \in {-1, 0, 1}}
        \cup {Inf(1), Inf(-1), NaN}

CallSuggest ==
    /\ call = NoCall
    /\ \E x \in AdjustedSamples :
          call' = [fn |-> "suggest", args |-> <<x>>, ret |-> suggest_club_and_percentage(x)]
    /\ UNCHANGED gui_vars

SpecSuggest == Init /\ [][CallSuggest]_vars

MaxBaseSteps == 3

MaxElevationSteps == 1

MaxWindSteps == 2

\* arguments handed to calculate_adjusted_shot
BaseSamples == {Fin(50 * i) : i \in (-1)..MaxBaseSteps} \cup {Inf(1), NaN}

ElevationSamples == {Fin(30 * i) : i \in (-MaxElevationSteps)..MaxElevationSteps} \cup {Inf(-1)}

WindSpeedSamples == {Fin(10 * i) : i \in (-1)..MaxWindSteps} \cup {Inf(1)}

WindAngleSamples == {Fin(deg) : deg \in DOMAIN TrigTable} \cup {Inf(1), Inf(-1), NaN}

ClubSamples == DOMAIN CLUB_FACTORS \cup {"Putter", ""}

CallAdjust ==
    /\ call = NoCall
    /\ \E b \in BaseSamples, e \in ElevationSamples, w \in WindSpeedSamples,
          a \in WindAngleSamples, c \in ClubSamples :
          call' = [fn |-> "adjust", args |-> <<b, e, w, a, c>>,
                   ret |-> calculate_adjusted_shot(b, e, w, a, c, club_factors)]
    /\ UNCHANGED gui_vars

SpecAdjust == Init /\ [][CallAdjust]_vars

(* ---------------------------------------------------------------------- *)
(* Properties of suggest_club_and_percentage (SpecSuggest)                 *)
(* ---------------------------------------------------------------------- *)
DistanceEntries == {CLUB_DISTANCES[i] : i \in 1..Len(CLUB_DISTANCES)}

DistanceKeys == {e[1] : e \in DistanceEntries}

LongestEntry == CHOOSE e \in DistanceEntries : \A f \in DistanceEntries : f[2] <= e[2]

ShortestEntry == CHOOSE e \in DistanceEntries : \A f \in DistanceEntries : e[2] <= f[2]

\* baseline b (yards) >= x
RefAtLeast(b, x) == (x.k = "fin" /\ b * E5 >= x.v) \/ (x.k = "inf" /\ x.v = -1)

\* the reference selection: the entry of smallest baseline >= x, else the longest
RefSelection(x) ==
    LET candidates == {e \in DistanceEntries : RefAtLeast(e[2], x)}
    IN  IF candidates # {}
        THEN CHOOSE e \in candidates : \A f \in candidates : e[2] <= f[2]
        ELSE LongestEntry

\* (x / b) * 100 for a baseline b > 0
RefPercentage(x, b) ==
    IF x.k = "fin" THEN [k |-> "fin", num |-> x.v, den |-> b * 1000]
    ELSE [k |-> x.k, num |-> x.v, den |-> 1]

SuggestCalled == call.fn = "suggest"

\* C1: for every adjusted distance suggest_club_and_percentage returns the club
\* of the reference selection (smallest baseline >= the distance, else the
\* longest-baseline club, Driver at 280) with percentage (distance / that
\* club's baseline) * 100; 80 gives (Lob Wedge, 100), 0 gives the shortest
\* club at 0 and 300 gives Driver above 100.
C1_SuggestMatchesReference ==
    SuggestCalled =>
        LET x == call.args[1]
            r == call.ret
            e == RefSelection(x)
        IN  /\ r.club = e[1]
            /\ r.percentage = RefPercentage(x, e[2])
            /\ LongestEntry = <<"Driver", 280>>
            /\ x = Fin(80 * E5) =>
                   r.club = "Lob Wedge" /\ r.percentage.num = 100 * r.percentage.den
            /\ x = Fin(0) => r.club = ShortestEntry[1] /\ r.percentage.num = 0
            /\ x = Fin(300 * E5) =>
                   r.club = "Driver" /\ r.percentage.num > 100 * r.percentage.den

\* a call with the distance exactly on the shortest baseline
C1_Witness ==
    /\ SuggestCalled
    /\ call.args[1] = Fin(80 * E5)
    /\ call.ret.club = "Lob Wedge"

\* C2: the returned club is always a key of the distance table (also for zero,
\* negative and non-finite distances), and the percentage exceeds 100 only
\* when the result is the longest-club fallback for a distance above the
\* longest baseline, or comes from the one-step lookahead.
C2_ValidClubAndBoundedPercentage ==
    SuggestCalled =>
        LET x == call.args[1]
            r == call.ret
        IN  /\ r.club \in DistanceKeys
            /\ Over100(r.percentage) =>
                   \/ /\ r.branch = "fallback"
                      /\ r.club = LongestEntry[1]
                      /\ ~RefAtLeast(LongestEntry[2], x)
                   \/ r.branch = "lookahead"

\* a call whose percentage is above 100
C2_Witness ==
    /\ SuggestCalled
    /\ call.args[1] = Fin(300 * E5)
    /\ Over100(call.ret.percentage)
    /\ call.ret.branch = "fallback"

\* C10: the lookahead branch is never taken: the first entry whose baseline is
\* >= the distance gives a percentage <= 100, so no result is the successor
\* of the first matching entry and no distance up to the longest baseline
\* gets a percentage above 100.
C10_LookaheadNeverTaken ==
    SuggestCalled =>
        LET x == call.args[1]
            r == call.ret
        IN  /\ r.branch # "lookahead"
            /\ RefAtLeast(LongestEntry[2], x) =>
                   r.branch = "first" /\ ~Over100(r.percentage)

\* a call that matches an entry at exactly 100 percent and still returns it
C10_Witness ==
    /\ SuggestCalled
    /\ call.args[1] = Fin(225 * E5)
    /\ call.ret.branch = "first"
    /\ call.ret.club = "Hybrid"
    /\ call.ret.percentage.num = 100 * call.ret.percentage.den

(* ---------------------------------------------------------------------- *)
(* Properties of calculate_adjusted_shot (SpecAdjust)                      *)
(* ---------------------------------------------------------------------- *)
AdjustCalled == call.fn = "adjust"

IsFinite(x) == x.k = "fin"

C6_UnknownClubRaises ==
    AdjustCalled =>
        (call.args[5] \notin DOMAIN CLUB_FACTORS
            => call.ret.exc = "KeyError" /\ call.ret.val = <<>>)

\* a call with a club that is not in the table
C6_Witness ==
    /\ AdjustCalled
    /\ call.args[5] = "Putter"
    /\ call.args[4] = Fin(0)
    /\ call.ret.exc = "KeyError"

(* ---------------------------------------------------------------------- *)
(* Properties of the window (Spec)                                         *)
(* ---------------------------------------------------------------------- *)
Parses(text) == ParseFloat(text).exc = "none"

AllFieldsParse ==
    /\ Parses(entry_distance)
    /\ Parses(entry_elevation)
    /\ Parses(entry_wind_speed)
    /\ Parses(entry_wind_angle)

Shows(text, piece) == \E i \in 1..Len(text) : text[i] = piece

ShowsResultLines(text) ==
    /\ Shows(text, "Adjusted Shot Distance: ")
    /\ Shows(text, "Lateral Adjustment: ")
    /\ Shows(text, "Suggested Club: ")
    /\ Shows(text, "Percentage: ")

\* C5: after Calculate, if any of the four fields does not parse as a number
\* the result label is exactly the invalid-input message, with nothing of a
\* result in it; if all four parse, the label shows the four result lines.
C5_InvalidInputMessage ==
    op = "calculate" =>
        IF AllFieldsParse
        THEN ShowsResultLines(result_label)
        ELSE result_label = InvalidText /\ ~ShowsResultLines(result_label)

\* C5 without the case of an infinite wind angle: a field that does not parse
\* gives the message, and four fields that parse give the four lines unless
\* the wind angle is infinite, which gives the message as well.
C5_ExceptInfiniteAngle ==
    op = "calculate" =>
        IF AllFieldsParse /\ ParseFloat(entry_wind_angle).val.k # "inf"
        THEN ShowsResultLines(result_label)
        ELSE result_label = InvalidText

\* C7: in every state the window reaches (edits, club selection, Calculate,
\* Clear) the selected club is a key of the factor table, and no Calculate
\* lets the key error escape.
C7_SelectedClubIsKnown ==
    /\ club_combobox \in DOMAIN CLUB_FACTORS
    /\ raised # "KeyError"

\* Calculate has shown a result for a club picked from the list
C7_Witness ==
    /\ op = "calculate"
    /\ club_combobox = "5-Wood"
    /\ raised = "none"
    /\ ShowsResultLines(result_label)

\* C8: what Calculate shows is a function of the current four texts and the
\* selected club alone, whatever was calculated, cleared or edited before,
\* and the factor table is never modified.
C8_ResultDependsOnInputsOnly ==
    [][/\ club_factors' = CLUB_FACTORS
       /\ op' = "calculate" =>
            /\ raised' = "none"
            /\ result_label' =
                   CalculateOutcome(entry_distance', entry_elevation', entry_wind_speed',
                                    entry_wind_angle', club_combobox', CLUB_FACTORS).text]_vars

\* Calculate has shown the result of a 9-Iron shot across the wind
C8_Witness ==
    /\ op = "calculate"
    /\ entry_distance = <<"1", "5", "0">>
    /\ entry_elevation = <<"-", "2", "0">>
    /\ entry_wind_speed = <<"1", "0">>
    /\ entry_wind_angle = <<"9", "0">>
    /\ club_combobox = "9-Iron"
    /\ ShowsResultLines(result_label)

\* C9: after Clear, whatever came before, the four entries are empty, the
\* combobox is on Driver and the result label is "Adjusted Shot Distance: "
\* with nothing of an earlier result or message: the values the window
\* starts with.  (The state after Clear does not depend on the state
\* before, so Clear twice is Clear once.)
C9_ClearRestoresInitialValues ==
    op \in {"init", "clear"} =>
        /\ entry_distance = <<>>
        /\ entry_elevation = <<>>
        /\ entry_wind_speed = <<>>
        /\ entry_wind_angle = <<>>
        /\ club_combobox = "Driver"
        /\ result_label = <<"Adjusted Shot Distance: ">>

\* Clear has acted
C9_Witness ==
    /\ op = "clear"
    /\ focus = "entry_distance"
    /\ result_label = InitialText
    /\ entry_wind_speed = <<>>

====
